---- MODULE Spec2Model ----
(***************************************************************************)
(* Verification model of src/src/SyncedVcfData.cpp (Eagle): the synced     *)
(* read of a reference and a target VCF (processVcfs), the genotype        *)
(* encoders (process_ref_genotypes, process_target_genotypes), the         *)
(* genetic-map step (processMap), the range check of the constructor and   *)
(* the segmentation and bit packing of buildGenoBits.                      *)
(*                                                                         *)
(* C++ vectors are sequences; the C++ index i is the TLA+ index i+1.       *)
(* A 64-bit mask is the set of its bit positions that are 1, so "x |=      *)
(* b<<j" is "x \cup {j}" when b is 1.  Genetic coordinates (double) are    *)
(* integers on a grid.                                                     *)
(***************************************************************************)
EXTENDS Integers, Sequences, FiniteSets, TLC

VARIABLES
  pc,               \* position of the run
  allowRefAltSwap,  \* constructor argument
  region,           \* constructor argument chrom as given: 0 = no region
  chrom,            \* the chromosome number: the argument, or the one inferred
  cMmax,            \* constructor argument
  Nref, Ntarget,    \* sample counts of the two headers
  nread,            \* records delivered by bcf_sr_next_line so far
  curRid, curPos,   \* contig and position of the last delivered record
  M, chrBps, hapsRef, genosTarget, out,
  w, prev_rid,
  MtargetOnly, MrefOnly, MmultiAllelic, Mmonomorphic, MrefAltError,
  numRefAltSwaps,
  MwithMissingRef, MwithUnphasedRef, GmissingRef, GunphasedRef, GmissingTarget,
  numMissing, numUnphased,   \* the per-site outputs of the encoders
  cMs, physRange, cMrange,
  seg64snpInds, seg64cMvecs, Mseg64, genoBits, m64,
  gtIn,             \* the arguments of an encoder call, when it is run alone
  hist              \* history of the run: what was read and done (no code state)

loopVars == <<nread, curRid, curPos, M, chrBps, hapsRef, genosTarget, out, w,
              prev_rid, chrom>>
rejectCounters == <<MtargetOnly, MrefOnly, MmultiAllelic, Mmonomorphic, MrefAltError>>
siteCounters == <<MwithMissingRef, MwithUnphasedRef, GmissingRef, GunphasedRef,
                  GmissingTarget, numMissing, numUnphased>>
inputVars == <<allowRefAltSwap, region, cMmax, Nref, Ntarget, gtIn>>
mapVars == <<cMs, physRange, cMrange>>
bitVars == <<seg64snpInds, seg64cMvecs, Mseg64, genoBits, m64>>
vars == <<pc, loopVars, rejectCounters, numRefAltSwaps, siteCounters, inputVars,
          mapVars, bitVars, hist>>

----------------------------------------------------------------------------
(* Bounds of the model *)

\* records the joint reader delivers in one run
MaxRecords == 3
\* samples per genotype array when an encoder is run alone
MaxSmpl == 2
\* RNG states an encoder is entered with when run alone: 0..MaxDraws draws in
MaxDraws == 2
\* variants handed to buildGenoBits when it is run alone
MaxM == 81

\* (Nref, Ntarget) of the two headers
SampleCounts == {<<2, 1>>}
\* (Nref, Ntarget) when buildGenoBits is run alone
PackedSampleCounts == {<<1, 1>>, <<2, 1>>, <<1, 2>>}

----------------------------------------------------------------------------
(* htslib genotype encoding (htslib/vcf.h), as the code uses it *)

INT32_MIN == (-2147483647) - 1
bcf_int32_vector_end == INT32_MIN + 1
bcf_gt_unphased(idx) == (idx + 1) * 2
bcf_gt_missing == bcf_gt_unphased(-1)
bcf_gt_phased(idx) == (idx + 1) * 2 + 1
bcf_gt_is_missing(v) == (v \div 2) = 0
bcf_gt_alleleNoOffset(v) == v \div 2
bcf_gt_allele(v) == (v \div 2) - 1
bcf_gt_is_phased(v) == (v % 2) = 1

At(s, i) == s[i + 1]

----------------------------------------------------------------------------
(* process_ref_genotypes *)

seed == 521288629

\* Marsaglia's MWC step.  18000*65535 + 65535 < 2^31, so the 32-bit
\* unsigned arithmetic of the code never wraps.
mwcHighLow(x) == 18000 * (x \div 65536) + (x % 65536)
mwc(x) == 18000 * (x % 65536) + (x \div 65536)

\* ploidy check of both encoders: ngt == 2*nsmpl
ploidyOk(nsmpl, ngt) == ngt = 2 * nsmpl

\* a call that ends the genotype vector early
isVectorEndNever(p) == FALSE
isVectorEnd(p) == p = bcf_int32_vector_end

\* the generator is stepped for a non-missing unphased call whose two
\* booleans differ (short-circuit && at line 76)
drawsAnyUnphased(missing, unphased, h0, h1) == ~missing /\ unphased
draws(missing, unphased, h0, h1) == ~missing /\ unphased /\ h0 # h1

\* line 78: numUnphased++ in the unphased branch, outside the test of line 76
countsUnphasedHet(missing, unphased, h0, h1) == ~missing /\ unphased /\ h0 # h1
countsUnphased(missing, unphased, h0, h1) == ~missing /\ unphased

\* lines 80-83
applyRefAltSwapFirstOnly(refAltSwap, a0, a1) ==
  IF refAltSwap THEN <<~a0, a1>> ELSE <<a0, a1>>
applyRefAltSwap(refAltSwap, a0, a1) ==
  IF refAltSwap THEN <<~a0, ~a1>> ELSE <<a0, a1>>

\* one sample of the loop at lines 52-86; acc is the state of the call so far.
\* drawn records the swap decision of every step of the generator.
refSample(gt, i, refAltSwap, acc) ==
  LET p0 == At(gt, 2 * i)
      p1 == At(gt, 2 * i + 1)
      missing == bcf_gt_is_missing(p0) \/ bcf_gt_is_missing(p1)
      h0 == bcf_gt_allele(p0) >= 1
      h1 == bcf_gt_allele(p1) >= 1
      unphased == ~bcf_gt_is_missing(p1) /\ ~bcf_gt_is_phased(p1)
      draw == draws(missing, unphased, h0, h1)
      w1 == IF draw THEN mwc(acc.w) ELSE acc.w
      swap == draw /\ (w1 % 2 = 1)
      a0 == IF missing THEN FALSE ELSE IF swap THEN h1 ELSE h0
      a1 == IF missing THEN FALSE ELSE IF swap THEN h0 ELSE h1
      b == applyRefAltSwap(refAltSwap, a0, a1)
  IN  IF isVectorEnd(p0) \/ isVectorEnd(p1)
      THEN [acc EXCEPT !.fatal = TRUE]
      ELSE [fatal |-> FALSE,
            hapsRef |-> acc.hapsRef \o b,
            numMissing |-> acc.numMissing + (IF missing THEN 1 ELSE 0),
            numUnphased |-> acc.numUnphased
                              + (IF countsUnphased(missing, unphased, h0, h1)
                                 THEN 1 ELSE 0),
            w |-> w1,
            drawn |-> acc.drawn \o (IF draw THEN <<swap>> ELSE <<>>)]

RECURSIVE refLoop(_, _, _, _, _)
refLoop(nsmpl, gt, i, refAltSwap, acc) ==
  IF i = nsmpl \/ acc.fatal THEN acc
  ELSE refLoop(nsmpl, gt, i + 1, refAltSwap, refSample(gt, i, refAltSwap, acc))

\* the whole call: counters reset (45), ploidy check (46-50), sample loop
process_ref_genotypes(nsmpl, gt, refAltSwap, hapsRef0, w0) ==
  LET acc0 == [fatal |-> FALSE, hapsRef |-> hapsRef0, numMissing |-> 0,
               numUnphased |-> 0, w |-> w0, drawn |-> <<>>]
  IN  IF ~ploidyOk(nsmpl, Len(gt)) THEN [acc0 EXCEPT !.fatal = TRUE]
      ELSE refLoop(nsmpl, gt, 0, refAltSwap, acc0)

----------------------------------------------------------------------------
(* process_target_genotypes *)

\* lines 119-124: the code of a sample whose alleles passed the checks
genoCodeSum(missing, idx0, idx1) == idx0 + idx1
genoCode(missing, idx0, idx1) == IF missing THEN 9 ELSE idx0 + idx1

tgtSample(gt, i, acc) ==
  LET p0 == At(gt, 2 * i)
      p1 == At(gt, 2 * i + 1)
      missing == bcf_gt_is_missing(p0) \/ bcf_gt_is_missing(p1)
      idx0 == IF bcf_gt_is_missing(p0) THEN 0 ELSE bcf_gt_allele(p0)
      idx1 == IF bcf_gt_is_missing(p1) THEN 0 ELSE bcf_gt_allele(p1)
      g == genoCode(missing, idx0, idx1)
  IN  IF isVectorEnd(p0) \/ isVectorEnd(p1) \/ idx0 > 1 \/ idx1 > 1
      THEN [acc EXCEPT !.fatal = TRUE]
      ELSE [fatal |-> FALSE,
            genosTarget |-> acc.genosTarget \o <<g>>,
            numMissing |-> acc.numMissing + (IF missing THEN 1 ELSE 0)]

RECURSIVE tgtLoop(_, _, _, _)
tgtLoop(nsmpl, gt, i, acc) ==
  IF i = nsmpl \/ acc.fatal THEN acc
  ELSE tgtLoop(nsmpl, gt, i + 1, tgtSample(gt, i, acc))

process_target_genotypes(nsmpl, gt, genosTarget0) ==
  LET acc0 == [fatal |-> FALSE, genosTarget |-> genosTarget0, numMissing |-> 0]
  IN  IF ~ploidyOk(nsmpl, Len(gt)) THEN [acc0 EXCEPT !.fatal = TRUE]
      ELSE tgtLoop(nsmpl, gt, 0, acc0)

----------------------------------------------------------------------------
(* The joint reader: the records bcf_sr_next_line can deliver *)

\* contig names of the headers, as characters; index = rid
Contigs == << <<"2", "2">>, <<"X">>, <<"2", "3">> >>

DigitVal == [c \in {"0", "1", "2", "3", "4", "5", "6", "7", "8", "9"} |->
               CASE c = "0" -> 0 [] c = "1" -> 1 [] c = "2" -> 2 [] c = "3" -> 3
                 [] c = "4" -> 4 [] c = "5" -> 5 [] c = "6" -> 6 [] c = "7" -> 7
                 [] c = "8" -> 8 [] c = "9" -> 9]
DigitChar == <<"0", "1", "2", "3", "4", "5", "6", "7", "8", "9">>

\* sscanf(name, "%d", &chrom): the leading digits are converted; with no
\* leading digit nothing is stored and chrom keeps its value
RECURSIVE scanDigits(_, _, _)
scanDigits(name, i, acc) ==
  IF i > Len(name) \/ name[i] \notin DOMAIN DigitVal THEN acc
  ELSE scanDigits(name, i + 1, 10 * acc + DigitVal[name[i]])
sscanfInt(name, old) ==
  IF Len(name) = 0 \/ name[1] \notin DOMAIN DigitVal THEN old
  ELSE scanDigits(name, 1, 0)

\* ksprintf("%d", chrom) of the region string (line 143)
RECURSIVE sprintfInt(_)
sprintfInt(n) ==
  IF n < 10 THEN <<DigitChar[n + 1]>>
  ELSE sprintfInt(n \div 10) \o <<DigitChar[(n % 10) + 1]>>

\* genotype arrays of a record: every sample carries the same call
RECURSIVE Repeat(_, _)
Repeat(call, n) == IF n = 0 THEN <<>> ELSE call \o Repeat(call, n - 1)

callPhasedHet == <<bcf_gt_unphased(0), bcf_gt_phased(1)>>
callUnphasedHet == <<bcf_gt_unphased(1), bcf_gt_unphased(0)>>
callMissing == <<bcf_gt_missing, bcf_gt_phased(1)>>
callHomAlt == <<bcf_gt_unphased(1), bcf_gt_unphased(1)>>
callHaploid == <<bcf_gt_unphased(1), bcf_int32_vector_end>>
callThirdAllele == <<bcf_gt_unphased(0), bcf_gt_unphased(2)>>

RefGts(n) == {Repeat(c, n) : c \in {callPhasedHet, callUnphasedHet, callHaploid}}
               \cup {Repeat(<<bcf_gt_unphased(1)>>, n)}
TgtGts(n) == {Repeat(c, n) : c \in {callPhasedHet, callHaploid, callThirdAllele}}
\* for the records the filters reject, whose genotypes the code never reads
FewGts(n) == {Repeat(callPhasedHet, n), Repeat(callHaploid, n)}
OneGt(n) == {Repeat(callPhasedHet, n)}

NoAlleles == <<>>
NoGt == <<>>

\* The contigs the reader can be on after a record on rid0: contigs come in
\* header order, and a region (chrom given on entry) keeps the reader on the
\* contig of that name.
NextRids(rid0, reg) ==
  {k \in {rid0, rid0 + 1} :
     /\ k < Len(Contigs)
     /\ reg # 0 => Contigs[k + 1] = sprintfInt(reg)}
\* Positions do not decrease within a contig.  The code reads the position
\* of a record only once it has passed the filters (line 285), so the
\* records the filters reject are given the position of the cursor.
NextKeys(rid0, pos0, reg) ==
  {k \in NextRids(rid0, reg) \X {pos0, pos0 + 1} : k[2] = pos0 \/ k[1] = rid0}
RejectKeys(rid0, pos0, reg) == NextRids(rid0, reg) \X {pos0}

Rec(k, hasRef, hasTgt, ra, ta, rg, tg) ==
  [rid |-> k[1], pos |-> k[2], hasRef |-> hasRef, hasTgt |-> hasTgt,
   refAlleles |-> ra, tgtAlleles |-> ta, refGt |-> rg, tgtGt |-> tg]

Records(rid0, pos0, reg, nr, nt) ==
       {Rec(k, FALSE, TRUE, NoAlleles, <<"A", "C">>, NoGt, tg) :
            k \in RejectKeys(rid0, pos0, reg), tg \in OneGt(nt)}
  \cup {Rec(k, TRUE, FALSE, <<"A", "C">>, NoAlleles, rg, NoGt) :
            k \in RejectKeys(rid0, pos0, reg), rg \in OneGt(nr)}
  \cup {Rec(k, TRUE, TRUE, <<"A", "C">>, ta, Repeat(callPhasedHet, nr), tg) :
            k \in RejectKeys(rid0, pos0, reg),
            ta \in {<<"A">>, <<"A", "C", "G">>}, tg \in FewGts(nt)}
  \cup {Rec(k, TRUE, TRUE, ra, <<"A", "C">>, Repeat(callPhasedHet, nr),
            Repeat(callPhasedHet, nt)) :
            k \in RejectKeys(rid0, pos0, reg),
            ra \in {<<"A", "G">>, <<"A", "C", "G">>}}
  \cup {Rec(k, TRUE, TRUE, ra, <<"A", "C">>, rg, tg) :
            k \in NextKeys(rid0, pos0, reg),
            ra \in {<<"A", "C">>, <<"C", "A">>},
            rg \in RefGts(nr), tg \in TgtGts(nt)}

\* a record with a sample that is not diploid, on either side
notDiploid(nsmpl, gt) ==
  \/ Len(gt) # 2 * nsmpl
  \/ \E i \in 1..Len(gt) : gt[i] = bcf_int32_vector_end
recNotDiploid(r) ==
  \/ r.hasRef /\ notDiploid(Nref, r.refGt)
  \/ r.hasTgt /\ notDiploid(Ntarget, r.tgtGt)

\* the reference calls of a diploid array that are non-missing, unphased and
\* heterozygous (one REF allele, one ALT allele)
hetUnphased(gt) ==
  Cardinality({i \in 1..(Len(gt) \div 2) :
                 LET a == gt[2 * i - 1]
                     b == gt[2 * i]
                 IN  /\ a \notin {0, 1} /\ b \notin {0, 1}
                     /\ b % 2 = 0
                     /\ (a \in {2, 3}) # (b \in {2, 3})})

\* what kind of record r is, in the words of the filters
recKind(r) ==
  CASE ~r.hasRef -> "targetOnly"
    [] r.hasRef /\ ~r.hasTgt -> "refOnly"
    [] r.hasRef /\ r.hasTgt /\ Len(r.tgtAlleles) > 2 -> "multiAllelic"
    [] r.hasRef /\ r.hasTgt /\ Len(r.tgtAlleles) < 2 -> "monomorphic"
    [] /\ r.hasRef /\ r.hasTgt /\ Len(r.tgtAlleles) = 2 /\ allowRefAltSwap
       /\ \/ Len(r.refAlleles) # 2
          \/ r.tgtAlleles \notin {r.refAlleles, <<r.refAlleles[2], r.refAlleles[1]>>}
         -> "refAltError"
    [] OTHER -> "passed"

----------------------------------------------------------------------------
(* processVcfs: the record loop, lines 209-304 *)

joined(r) == r.hasRef /\ r.hasTgt

\* strcmp of the two allele strings of each side, lines 249-254
sameAlleles(r) ==
  r.tgtAlleles[1] = r.refAlleles[1] /\ r.tgtAlleles[2] = r.refAlleles[2]
reversedAlleles(r) ==
  r.tgtAlleles[1] = r.refAlleles[2] /\ r.tgtAlleles[2] = r.refAlleles[1]

multiAllelicOver3(r) == joined(r) /\ Len(r.tgtAlleles) > 3
multiAllelic(r) == joined(r) /\ Len(r.tgtAlleles) > 2
monomorphic(r) == joined(r) /\ ~multiAllelic(r) /\ Len(r.tgtAlleles) < 2
biallelic(r) == joined(r) /\ ~multiAllelic(r) /\ ~monomorphic(r)

\* lines 238-262: the outcome of the further error-checking
refAltError(r) ==
  /\ biallelic(r)
  /\ allowRefAltSwap
  /\ \/ Len(r.tgtAlleles) # 2
     \/ Len(r.refAlleles) # 2
     \/ ~sameAlleles(r) /\ ~reversedAlleles(r)
refAltSwapOf(r) ==
  allowRefAltSwap /\ ~sameAlleles(r) /\ reversedAlleles(r)
passesFilters(r) == biallelic(r) /\ ~refAltError(r)

\* lines 267-279: the chromosome latched and the chromosome number learnt
\* when r is the first record to pass the filters
rid1Always(r) == r.rid
rid1(r) == IF prev_rid < 0 THEN r.rid ELSE prev_rid
chrom1(r) ==
  IF prev_rid < 0 /\ chrom = 0 THEN sscanfInt(Contigs[r.rid + 1], chrom)
  ELSE chrom
chromInvalidAbove23(r) ==
  prev_rid < 0 /\ chrom = 0 /\ ~(chrom1(r) >= 1 /\ chrom1(r) <= 23)
chromInvalid(r) ==
  prev_rid < 0 /\ chrom = 0 /\ ~(chrom1(r) >= 1 /\ chrom1(r) <= 22)

\* bcf_sr_next_line delivered r
delivered(r) ==
  /\ nread' = nread + 1
  /\ curRid' = r.rid
  /\ curPos' = r.pos

sawRecord(r) == [hist EXCEPT !.sawNonDiploid = @ \/ recNotDiploid(r),
                             !.last = recKind(r)]

\* lines 213-217
onTargetOnly(r) ==
  /\ delivered(r)
  /\ ~r.hasRef
  /\ MtargetOnly' = MtargetOnly + 1
  /\ hist' = sawRecord(r)
  /\ UNCHANGED <<pc, M, chrBps, hapsRef, genosTarget, out, w, prev_rid, chrom,
                 MrefOnly, MmultiAllelic, Mmonomorphic, MrefAltError,
                 numRefAltSwaps, siteCounters, inputVars, mapVars, bitVars>>

\* lines 218-222
onRefOnly(r) ==
  /\ delivered(r)
  /\ r.hasRef /\ ~r.hasTgt
  /\ MrefOnly' = MrefOnly + 1
  /\ hist' = sawRecord(r)
  /\ UNCHANGED <<pc, M, chrBps, hapsRef, genosTarget, out, w, prev_rid, chrom,
                 MtargetOnly, MmultiAllelic, Mmonomorphic, MrefAltError,
                 numRefAltSwaps, siteCounters, inputVars, mapVars, bitVars>>

\* lines 227-230
onMultiAllelic(r) ==
  /\ delivered(r)
  /\ multiAllelic(r)
  /\ MmultiAllelic' = MmultiAllelic + 1
  /\ hist' = sawRecord(r)
  /\ UNCHANGED <<pc, M, chrBps, hapsRef, genosTarget, out, w, prev_rid, chrom,
                 MtargetOnly, MrefOnly, Mmonomorphic, MrefAltError,
                 numRefAltSwaps, siteCounters, inputVars, mapVars, bitVars>>

\* lines 231-234
onMonomorphic(r) ==
  /\ delivered(r)
  /\ monomorphic(r)
  /\ Mmonomorphic' = Mmonomorphic + 1
  /\ hist' = sawRecord(r)
  /\ UNCHANGED <<pc, M, chrBps, hapsRef, genosTarget, out, w, prev_rid, chrom,
                 MtargetOnly, MrefOnly, MmultiAllelic, MrefAltError,
                 numRefAltSwaps, siteCounters, inputVars, mapVars, bitVars>>

\* lines 239-242 and 258-261
onRefAltError(r) ==
  /\ delivered(r)
  /\ refAltError(r)
  /\ MrefAltError' = MrefAltError + 1
  /\ hist' = sawRecord(r)
  /\ UNCHANGED <<pc, M, chrBps, hapsRef, genosTarget, out, w, prev_rid, chrom,
                 MtargetOnly, MrefOnly, MmultiAllelic, Mmonomorphic,
                 numRefAltSwaps, siteCounters, inputVars, mapVars, bitVars>>

\* line 256 runs for every record that passes the filters with its alleles
\* reversed, before the chromosome is looked at
countSwap(r) == numRefAltSwaps + (IF refAltSwapOf(r) THEN 1 ELSE 0)

\* lines 267-277: the first record to pass the filters names no chromosome
\* in 1..22
onChromFatal(r) ==
  /\ delivered(r)
  /\ passesFilters(r)
  /\ chromInvalid(r)
  /\ numRefAltSwaps' = countSwap(r)
  /\ prev_rid' = rid1(r)
  /\ chrom' = chrom1(r)
  /\ pc' = "fatal"
  /\ hist' = sawRecord(r)
  /\ UNCHANGED <<M, chrBps, hapsRef, genosTarget, out, w, rejectCounters,
                 siteCounters, inputVars, mapVars, bitVars>>

\* line 280: the record lies on another contig than the latched one
onBreak(r) ==
  /\ delivered(r)
  /\ passesFilters(r)
  /\ ~chromInvalid(r)
  /\ rid1(r) # r.rid
  /\ numRefAltSwaps' = countSwap(r)
  /\ pc' = "postloop"
  /\ hist' = sawRecord(r)
  /\ UNCHANGED <<M, chrBps, hapsRef, genosTarget, out, w, prev_rid, chrom,
                 rejectCounters, siteCounters, inputVars, mapVars, bitVars>>

\* lines 282-303 for a record that passes the filters and the chromosome check
accepting(r) ==
  /\ delivered(r)
  /\ passesFilters(r)
  /\ ~chromInvalid(r)
  /\ rid1(r) = r.rid
  /\ numRefAltSwaps' = countSwap(r)
  /\ prev_rid' = rid1(r)
  /\ chrom' = chrom1(r)
  /\ M' = M + 1
  /\ chrBps' = Append(chrBps, <<chrom1(r), r.pos + 1>>)

refOf(r) == process_ref_genotypes(Nref, r.refGt, refAltSwapOf(r), hapsRef, w)
tgtOfCleared(r) == process_target_genotypes(Ntarget, r.tgtGt, <<>>)
tgtOf(r) == process_target_genotypes(Ntarget, r.tgtGt, genosTarget)

accepted(r, ref) ==
  [hist EXCEPT !.sawNonDiploid = @ \/ recNotDiploid(r),
               !.acceptedNonDiploid = @ \/ recNotDiploid(r),
               !.last = recKind(r),
               !.drawn = @ \o ref.drawn,
               !.hetCalls = @ + (IF ref.fatal THEN 0 ELSE hetUnphased(r.refGt)),
               !.accRids = Append(@, r.rid),
               !.accOrdinals = Append(@, nread + 1),
               !.accSwapped = @ + (IF refAltSwapOf(r) THEN 1 ELSE 0)]

\* exit(1) inside process_ref_genotypes (lines 49, 60)
onAcceptFatalRef(r) ==
  /\ accepting(r)
  /\ refOf(r).fatal
  /\ hapsRef' = refOf(r).hapsRef
  /\ w' = refOf(r).w
  /\ numMissing' = refOf(r).numMissing
  /\ numUnphased' = refOf(r).numUnphased
  /\ pc' = "fatal"
  /\ hist' = accepted(r, refOf(r))
  /\ UNCHANGED <<genosTarget, out, rejectCounters, MwithMissingRef,
                 MwithUnphasedRef, GmissingRef, GunphasedRef, GmissingTarget,
                 inputVars, mapVars, bitVars>>

\* exit(1) inside process_target_genotypes (lines 95, 107, 117)
onAcceptFatalTarget(r) ==
  /\ accepting(r)
  /\ ~refOf(r).fatal
  /\ tgtOf(r).fatal
  /\ hapsRef' = refOf(r).hapsRef
  /\ w' = refOf(r).w
  /\ MwithMissingRef' = MwithMissingRef + (IF refOf(r).numMissing # 0 THEN 1 ELSE 0)
  /\ MwithUnphasedRef' = MwithUnphasedRef + (IF refOf(r).numUnphased # 0 THEN 1 ELSE 0)
  /\ GmissingRef' = GmissingRef + refOf(r).numMissing
  /\ GunphasedRef' = GunphasedRef + refOf(r).numUnphased
  /\ genosTarget' = tgtOf(r).genosTarget
  /\ numMissing' = tgtOf(r).numMissing
  /\ numUnphased' = refOf(r).numUnphased
  /\ pc' = "fatal"
  /\ hist' = accepted(r, refOf(r))
  /\ UNCHANGED <<out, rejectCounters, GmissingTarget, inputVars, mapVars, bitVars>>

\* line 303: the target record goes to the output; n is its place in the
\* joined iteration
bcf_writeNothing(o, r, n) == o
bcf_write(o, r, n) == Append(o, [ordinal |-> n, rid |-> r.rid, pos |-> r.pos])

\* lines 282-303
onAccept(r) ==
  /\ accepting(r)
  /\ ~refOf(r).fatal
  /\ ~tgtOf(r).fatal
  /\ hapsRef' = refOf(r).hapsRef
  /\ w' = refOf(r).w
  /\ MwithMissingRef' = MwithMissingRef + (IF refOf(r).numMissing # 0 THEN 1 ELSE 0)
  /\ MwithUnphasedRef' = MwithUnphasedRef + (IF refOf(r).numUnphased # 0 THEN 1 ELSE 0)
  /\ GmissingRef' = GmissingRef + refOf(r).numMissing
  /\ GunphasedRef' = GunphasedRef + refOf(r).numUnphased
  /\ genosTarget' = tgtOf(r).genosTarget
  /\ numMissing' = tgtOf(r).numMissing
  /\ numUnphased' = refOf(r).numUnphased
  /\ GmissingTarget' = GmissingTarget + tgtOf(r).numMissing
  /\ out' = bcf_write(out, r, nread + 1)
  /\ hist' = accepted(r, refOf(r))
  /\ UNCHANGED <<pc, rejectCounters, inputVars, mapVars, bitVars>>

\* bcf_sr_next_line returns 0: the streams are exhausted
EndOfStreams ==
  /\ pc = "loop"
  /\ pc' = "postloop"
  /\ UNCHANGED <<loopVars, rejectCounters, numRefAltSwaps, siteCounters,
                 inputVars, mapVars, bitVars, hist>>

\* lines 349-352
TooFewSnps ==
  /\ pc = "postloop"
  /\ M <= 1
  /\ pc' = "fatal"
  /\ UNCHANGED <<loopVars, rejectCounters, numRefAltSwaps, siteCounters,
                 inputVars, mapVars, bitVars, hist>>

\* line 354
ReturnChrBps ==
  /\ pc = "postloop"
  /\ ~(M <= 1)
  /\ pc' = "map"
  /\ UNCHANGED <<loopVars, rejectCounters, numRefAltSwaps, siteCounters,
                 inputVars, mapVars, bitVars, hist>>

----------------------------------------------------------------------------
(* processMap, lines 357-366, and the range check, lines 433-451 *)

\* MapInterpolater::interp, per the contract of the collaborator: one value
\* per (chromosome, position), not decreasing with the position.  The maps
\* of the model are linear: rate Morgans per base pair.
MaxRate == 1
interp(rate, chr, bp) == rate * bp

ProcessMap ==
  /\ pc = "map"
  /\ \E rate \in 0..MaxRate :
       cMs' = [m \in 1..Len(chrBps) |->
                 100 * interp(rate, chrBps[m][1], chrBps[m][2])]
  /\ pc' = "range"
  /\ UNCHANGED <<loopVars, rejectCounters, numRefAltSwaps, siteCounters,
                 inputVars, physRange, cMrange, bitVars, hist>>

\* lines 433-438
RECURSIVE physRangeOf(_, _)
physRangeOf(bps, m) ==
  IF m + 1 >= Len(bps) THEN 0
  ELSE (IF At(bps, m + 1)[1] = At(bps, m)[1]
        THEN At(bps, m + 1)[2] - At(bps, m)[2] ELSE 0) + physRangeOf(bps, m + 1)
RECURSIVE cMrangeOf(_, _, _)
cMrangeOf(bps, cms, m) ==
  IF m + 1 >= Len(bps) THEN 0
  ELSE (IF At(bps, m + 1)[1] = At(bps, m)[1]
        THEN At(cms, m + 1) - At(cms, m) ELSE 0) + cMrangeOf(bps, cms, m + 1)

\* lines 444-451
rangesZeroBoth(p, c) == p = 0 /\ c = 0
rangesZero(p, c) == p = 0 \/ c = 0

RangeFatal ==
  /\ pc = "range"
  /\ physRange' = physRangeOf(chrBps, 0)
  /\ cMrange' = cMrangeOf(chrBps, cMs, 0)
  /\ rangesZero(physRange', cMrange')
  /\ pc' = "fatal"
  /\ UNCHANGED <<loopVars, rejectCounters, numRefAltSwaps, siteCounters,
                 inputVars, cMs, bitVars, hist>>

RangeOk ==
  /\ pc = "range"
  /\ physRange' = physRangeOf(chrBps, 0)
  /\ cMrange' = cMrangeOf(chrBps, cMs, 0)
  /\ ~rangesZero(physRange', cMrange')
  /\ pc' = "segment"
  /\ UNCHANGED <<loopVars, rejectCounters, numRefAltSwaps, siteCounters,
                 inputVars, cMs, bitVars, hist>>

----------------------------------------------------------------------------
(* buildGenoBits, lines 368-411 *)

segMin == 16
segMax == 64

\* line 375: the segment under construction is closed before variant m
closesAtFull(cMvec, cm, cmax) == Len(cMvec) = segMax
closesNoMin(cMvec, cm, cmax) ==
  \/ Len(cMvec) = segMax
  \/ Len(cMvec) >= 1 /\ cm > cMvec[1] + cmax
closes(cMvec, cm, cmax) ==
  \/ Len(cMvec) = segMax
  \/ Len(cMvec) >= segMin /\ cm > cMvec[1] + cmax

\* lines 374-381.  A segment that starts at variant s is closed before the
\* first m > s at which line 375 holds of its coordinates cMs[s..m-1]
\* (cMvec) and cMs[m], and by line 381 when there is no such m.
segEnd(s, Mv, cms, cmax) ==
  LET C == {m \in (s + 1)..(Mv - 1) :
              closes(SubSeq(cms, s + 1, m), At(cms, m), cmax)}
  IN  IF C = {} THEN Mv ELSE CHOOSE m \in C : \A x \in C : m <= x

\* lines 376-380: the variant that closes a segment is the first of the next
\* one, so a segment holds the indices s..e-1
snpIndsAfterClose(s, e) == [j \in 1..(e - s - 1) |-> s + j]
snpInds(s, e) == [j \in 1..(e - s) |-> s + j - 1]

\* st holds seg64snpInds and seg64cMvecs
RECURSIVE segLoop(_, _, _, _, _)
segLoop(s, Mv, cms, cmax, st) ==
  LET e == segEnd(s, Mv, cms, cmax)
      st1 == [segs |-> Append(st.segs, snpInds(s, e)),
              cMvecs |-> Append(st.cMvecs, SubSeq(cms, s + 1, e))]
  IN  IF e = Mv THEN st1 ELSE segLoop(e, Mv, cms, cmax, st1)

segments(Mv, cms, cmax, cMvecs0) ==
  segLoop(0, Mv, cms, cmax, [segs |-> <<>>, cMvecs |-> cMvecs0])

noBits == [is0 |-> {}, is2 |-> {}, is9 |-> {}]

\* lines 371-389: segmentation, Mseg64, genoBits allocated and zeroed
BuildSegments ==
  /\ pc = "segment"
  /\ LET st == segments(M, cMs, cMmax, seg64cMvecs) IN
       /\ seg64snpInds' = st.segs
       /\ seg64cMvecs' = st.cMvecs
       /\ Mseg64' = Len(st.segs)
       /\ genoBits' = [i \in 1..(Len(st.segs) * (Nref + Ntarget)) |-> noBits]
  /\ m64' = 0
  /\ pc' = "pack"
  /\ UNCHANGED <<loopVars, rejectCounters, numRefAltSwaps, siteCounters,
                 inputVars, mapVars, hist>>

\* lines 395-396 and 401: where the data of variant m, individual n lies
hapIndexNoStride(m, n, h) == m * 2 + 2 * n + h
hapIndex(m, n, h) == m * 2 * Nref + 2 * n + h
genoIndex(m, n) == m * Ntarget + n - Nref

\* lines 407-409: the positions past the segment's length
paddingFromNext(len) == (len + 1)..(segMax - 1)
padding(len) == len..(segMax - 1)

\* lines 402-404: the three target bits of a genotype code
targetBits(geno) == [is0 |-> geno = 0, is2 |-> geno = 2, is9 |-> geno = 9]

\* lines 392-409 for segment seg and individual n, or-ed into the masks old
packed(seg, n, old) ==
  LET J == 0..(Len(seg) - 1) IN
  IF n < Nref
  THEN [is0 |-> old.is0 \cup {j \in J : At(hapsRef, hapIndex(At(seg, j), n, 0))},
        is2 |-> old.is2 \cup {j \in J : At(hapsRef, hapIndex(At(seg, j), n, 1))},
        is9 |-> old.is9 \cup padding(Len(seg))]
  ELSE [is0 |-> old.is0
                  \cup {j \in J : targetBits(At(genosTarget, genoIndex(At(seg, j), n))).is0},
        is2 |-> old.is2
                  \cup {j \in J : targetBits(At(genosTarget, genoIndex(At(seg, j), n))).is2},
        is9 |-> old.is9
                  \cup {j \in J : targetBits(At(genosTarget, genoIndex(At(seg, j), n))).is9}
                  \cup padding(Len(seg))]

\* one iteration of the loop at line 391
PackSegment ==
  /\ pc = "pack"
  /\ m64 < Mseg64
  /\ LET N == Nref + Ntarget IN
       genoBits' = [i \in DOMAIN genoBits |->
                      IF (i - 1) \div N = m64
                      THEN packed(At(seg64snpInds, m64), (i - 1) % N, genoBits[i])
                      ELSE genoBits[i]]
  /\ m64' = m64 + 1
  /\ pc' = IF m64 + 1 = Mseg64 THEN "done" ELSE "pack"
  /\ UNCHANGED <<loopVars, rejectCounters, numRefAltSwaps, siteCounters,
                 inputVars, mapVars, seg64snpInds, seg64cMvecs, Mseg64, hist>>

----------------------------------------------------------------------------
(* The run of the constructor, lines 418-454 *)

noHist == [sawNonDiploid |-> FALSE, acceptedNonDiploid |-> FALSE, drawn |-> <<>>,
           hetCalls |-> 0, accRids |-> <<>>, accOrdinals |-> <<>>, accSwapped |-> 0,
           last |-> "none"]
noCall == [side |-> "none", nsmpl |-> 0, gt |-> <<>>, refAltSwap |-> FALSE,
           w0 |-> seed]

RegionArgs == {0, 22}
PipelineCMmax == {100}

\* everything but the arguments, as lines 199-208 and 424-425 set it
initRun ==
  /\ nread = 0 /\ curRid = 0 /\ curPos = 1
  /\ M = 0 /\ chrBps = <<>> /\ hapsRef = <<>> /\ genosTarget = <<>> /\ out = <<>>
  /\ w = seed
  /\ prev_rid = -1
  /\ MtargetOnly = 0 /\ MrefOnly = 0 /\ MmultiAllelic = 0 /\ Mmonomorphic = 0
  /\ MrefAltError = 0 /\ numRefAltSwaps = 0
  /\ MwithMissingRef = 0 /\ MwithUnphasedRef = 0
  /\ GmissingRef = 0 /\ GunphasedRef = 0 /\ GmissingTarget = 0
  /\ numMissing = 0 /\ numUnphased = 0
  /\ cMs = <<>> /\ physRange = 0 /\ cMrange = 0
  /\ seg64snpInds = <<>> /\ seg64cMvecs = <<>> /\ Mseg64 = 0
  /\ genoBits = <<>> /\ m64 = 0
  /\ hist = noHist

Init ==
  /\ pc = "loop"
  /\ allowRefAltSwap \in BOOLEAN
  /\ region \in RegionArgs
  /\ chrom = region
  /\ cMmax \in PipelineCMmax
  /\ \E sc \in SampleCounts : Nref = sc[1] /\ Ntarget = sc[2]
  /\ gtIn = noCall
  /\ initRun

TargetOnly ==
  /\ pc = "loop" /\ nread < MaxRecords
  /\ \E r \in Records(curRid, curPos, region, Nref, Ntarget) : onTargetOnly(r)
RefOnly ==
  /\ pc = "loop" /\ nread < MaxRecords
  /\ \E r \in Records(curRid, curPos, region, Nref, Ntarget) : onRefOnly(r)
MultiAllelic ==
  /\ pc = "loop" /\ nread < MaxRecords
  /\ \E r \in Records(curRid, curPos, region, Nref, Ntarget) : onMultiAllelic(r)
Monomorphic ==
  /\ pc = "loop" /\ nread < MaxRecords
  /\ \E r \in Records(curRid, curPos, region, Nref, Ntarget) : onMonomorphic(r)
RefAltError ==
  /\ pc = "loop" /\ nread < MaxRecords
  /\ \E r \in Records(curRid, curPos, region, Nref, Ntarget) : onRefAltError(r)
ChromFatal ==
  /\ pc = "loop" /\ nread < MaxRecords
  /\ \E r \in Records(curRid, curPos, region, Nref, Ntarget) : onChromFatal(r)
Break ==
  /\ pc = "loop" /\ nread < MaxRecords
  /\ \E r \in Records(curRid, curPos, region, Nref, Ntarget) : onBreak(r)
AcceptFatalRef ==
  /\ pc = "loop" /\ nread < MaxRecords
  /\ \E r \in Records(curRid, curPos, region, Nref, Ntarget) : onAcceptFatalRef(r)
AcceptFatalTarget ==
  /\ pc = "loop" /\ nread < MaxRecords
  /\ \E r \in Records(curRid, curPos, region, Nref, Ntarget) : onAcceptFatalTarget(r)
Accept ==
  /\ pc = "loop" /\ nread < MaxRecords
  /\ \E r \in Records(curRid, curPos, region, Nref, Ntarget) : onAccept(r)

Next ==
  \/ TargetOnly
  \/ RefOnly
  \/ MultiAllelic
  \/ Monomorphic
  \/ RefAltError
  \/ ChromFatal
  \/ Break
  \/ AcceptFatalRef
  \/ AcceptFatalTarget
  \/ Accept
  \/ EndOfStreams
  \/ TooFewSnps
  \/ ReturnChrBps
  \/ ProcessMap
  \/ RangeFatal
  \/ RangeOk
  \/ BuildSegments
  \/ PackSegment

Spec == Init /\ [][Next]_vars

----------------------------------------------------------------------------
(* buildGenoBits run alone, on the vectors a longer run hands it *)

\* coordinate lists: a ramp of the given slope with one jump, which may go
\* down (the core does not check that the map is monotone)
Slopes == {0, 5}
JumpAt == {1, 20, 40, 64}
JumpBy == {-300, 0, 300}
CMmaxArgs == {100, 1000}
CmLists(Mv) ==
  {[m \in 1..Mv |-> 1000 + slope * (m - 1) + (IF m - 1 >= k THEN d ELSE 0)] :
     slope \in Slopes, k \in JumpAt, d \in JumpBy}

\* contents of hapsRef and genosTarget: any booleans, any codes in {0,1,2,9}
Codes == <<0, 1, 2, 9>>
Patterns == {0, 1}
hapsPattern(p, len) == [i \in 1..len |-> (i + p) % 3 = 0]
genosPattern(p, len) == [i \in 1..len |-> Codes[((i + p) % 4) + 1]]

InitBits ==
  /\ pc = "segment"
  /\ allowRefAltSwap = FALSE /\ region = 22 /\ chrom = 22
  /\ gtIn = noCall
  /\ cMmax \in CMmaxArgs
  /\ \E sc \in PackedSampleCounts : Nref = sc[1] /\ Ntarget = sc[2]
  /\ M \in 2..MaxM
  /\ cMs \in CmLists(M)
  /\ \E p \in Patterns :
       /\ hapsRef = hapsPattern(p, 2 * M * Nref)
       /\ genosTarget = genosPattern(p, M * Ntarget)
  /\ nread = 0 /\ curRid = 0 /\ curPos = 1
  /\ chrBps = <<>> /\ out = <<>>
  /\ w = seed
  /\ prev_rid = 0
  /\ MtargetOnly = 0 /\ MrefOnly = 0 /\ MmultiAllelic = 0 /\ Mmonomorphic = 0
  /\ MrefAltError = 0 /\ numRefAltSwaps = 0
  /\ MwithMissingRef = 0 /\ MwithUnphasedRef = 0
  /\ GmissingRef = 0 /\ GunphasedRef = 0 /\ GmissingTarget = 0
  /\ numMissing = 0 /\ numUnphased = 0
  /\ physRange = 0 /\ cMrange = 0
  /\ seg64snpInds = <<>> /\ seg64cMvecs = <<>> /\ Mseg64 = 0
  /\ genoBits = <<>> /\ m64 = 0
  /\ hist = noHist

NextBits == BuildSegments \/ PackSegment

SpecBits == InitBits /\ [][NextBits]_vars

----------------------------------------------------------------------------
(* The encoders run alone, on any genotype array *)

\* the calls of a genotype array: ".", "0", "1", "|1", "2", end of vector
GtVals == {bcf_gt_missing, bcf_gt_unphased(0), bcf_gt_unphased(1),
           bcf_gt_phased(1), bcf_gt_unphased(2), bcf_int32_vector_end}
\* bcf_get_genotypes gives nsmpl * (largest ploidy of the record) values
GtArrays(n) == UNION {[1..len -> GtVals] : len \in {n, 2 * n}}

\* the states the generator is in after 0..MaxDraws steps
RECURSIVE mwcIter(_)
mwcIter(k) == IF k = 0 THEN seed ELSE mwc(mwcIter(k - 1))

InitEnc ==
  /\ pc = "encode"
  /\ \E n \in 1..MaxSmpl, side \in {"ref", "target"} :
       /\ Nref = n /\ Ntarget = n
       /\ \E gt \in GtArrays(n), k \in 0..MaxDraws, swap \in BOOLEAN :
            /\ side = "target" => k = 0 /\ ~swap
            /\ gtIn = [side |-> side, nsmpl |-> n, gt |-> gt, refAltSwap |-> swap,
                       w0 |-> mwcIter(k)]
  /\ w = gtIn.w0
  /\ allowRefAltSwap = gtIn.refAltSwap /\ region = 22 /\ chrom = 22
  /\ cMmax \in PipelineCMmax
  /\ nread = 0 /\ curRid = 0 /\ curPos = 1
  /\ M = 0 /\ chrBps = <<>> /\ hapsRef = <<>> /\ genosTarget = <<>> /\ out = <<>>
  /\ prev_rid = 0
  /\ MtargetOnly = 0 /\ MrefOnly = 0 /\ MmultiAllelic = 0 /\ Mmonomorphic = 0
  /\ MrefAltError = 0 /\ numRefAltSwaps = 0
  /\ MwithMissingRef = 0 /\ MwithUnphasedRef = 0
  /\ GmissingRef = 0 /\ GunphasedRef = 0 /\ GmissingTarget = 0
  /\ numMissing = 0 /\ numUnphased = 0
  /\ cMs = <<>> /\ physRange = 0 /\ cMrange = 0
  /\ seg64snpInds = <<>> /\ seg64cMvecs = <<>> /\ Mseg64 = 0
  /\ genoBits = <<>> /\ m64 = 0
  /\ hist = noHist

\* the call at lines 291-292
EncodeRef ==
  /\ pc = "encode"
  /\ gtIn.side = "ref"
  /\ LET res == process_ref_genotypes(gtIn.nsmpl, gtIn.gt, gtIn.refAltSwap,
                                      hapsRef, w) IN
       /\ hapsRef' = res.hapsRef
       /\ w' = res.w
       /\ numMissing' = res.numMissing
       /\ numUnphased' = res.numUnphased
       /\ hist' = [hist EXCEPT !.drawn = res.drawn]
       /\ pc' = IF res.fatal THEN "fatal" ELSE "encoded"
  /\ UNCHANGED <<nread, curRid, curPos, M, chrBps, genosTarget, out, prev_rid,
                 chrom, rejectCounters, numRefAltSwaps, MwithMissingRef,
                 MwithUnphasedRef, GmissingRef, GunphasedRef, GmissingTarget,
                 inputVars, mapVars, bitVars>>

\* the call at line 299
EncodeTarget ==
  /\ pc = "encode"
  /\ gtIn.side = "target"
  /\ LET res == process_target_genotypes(gtIn.nsmpl, gtIn.gt, genosTarget) IN
       /\ genosTarget' = res.genosTarget
       /\ numMissing' = res.numMissing
       /\ pc' = IF res.fatal THEN "fatal" ELSE "encoded"
  /\ UNCHANGED <<nread, curRid, curPos, M, chrBps, hapsRef, out, w, prev_rid,
                 chrom, rejectCounters, numRefAltSwaps, MwithMissingRef,
                 MwithUnphasedRef, GmissingRef, GunphasedRef, GmissingTarget,
                 numUnphased, inputVars, mapVars, bitVars, hist>>

NextEnc == EncodeRef \/ EncodeTarget

SpecEnc == InitEnc /\ [][NextEnc]_vars

----------------------------------------------------------------------------
(* Claims about buildGenoBits, checked under SpecBits *)

segmented == pc \in {"pack", "done"}
segCount == Len(seg64snpInds)
segLen(i) == Len(seg64snpInds[i])
segFirst(i) == seg64snpInds[i][1]

\* C1: every segment holds at most 64 variants, and every segment that is not
\* the last one and holds fewer than 64 holds at least 16 and was closed
\* because the coordinate of the next variant exceeded the coordinate of the
\* segment's first variant by more than cMmax.
C1_SegmentSizes ==
  segmented =>
    \A i \in 1..segCount :
      /\ segLen(i) <= 64
      /\ (i < segCount /\ segLen(i) < 64) =>
           /\ segLen(i) >= 16
           /\ cMs[segFirst(i + 1) + 1] > cMs[segFirst(i) + 1] + cMmax

\* a run with a segment closed at 64 and one closed by its span
C1_Witness ==
  /\ pc = "done"
  /\ \E i \in 1..(segCount - 1) : segLen(i) = 64
  /\ \E i \in 1..(segCount - 1) : segLen(i) < 64

RECURSIVE flatten(_, _)
flatten(segs, i) == IF i > Len(segs) THEN <<>> ELSE segs[i] \o flatten(segs, i + 1)

\* C4: for M >= 2 the segments are non-empty runs whose concatenation in
\* segment order is 0..M-1, each index once, and Mseg64 is their number.
C4_SegmentsPartition ==
  (segmented /\ M >= 2) =>
    /\ Mseg64 = segCount
    /\ \A i \in 1..segCount : segLen(i) >= 1
    /\ flatten(seg64snpInds, 1) = [v \in 1..M |-> v - 1]

C4_Witness == pc = "done" /\ M >= 66 /\ Mseg64 >= 3

nonDecreasing == \A m \in 1..(Len(cMs) - 1) : cMs[m] <= cMs[m + 1]
segSpan(i) == seg64cMvecs[i][Len(seg64cMvecs[i])] - seg64cMvecs[i][1]

packedSegs == 1..m64
maskOf(i, n) == genoBits[(i - 1) * (Nref + Ntarget) + n + 1]

\* C2: for every segment, every individual and every bit position j from the
\* segment's length up to 63, is9 bit j is 1 and is0 and is2 bits j are 0.
C2_PaddingBits ==
  segmented =>
    \A i \in packedSegs : \A n \in 0..(Nref + Ntarget - 1) :
      \A j \in segLen(i)..63 :
        /\ j \in maskOf(i, n).is9
        /\ j \notin maskOf(i, n).is0
        /\ j \notin maskOf(i, n).is2

C2_Witness ==
  /\ pc = "done" /\ Mseg64 >= 2
  /\ \E i \in 1..segCount : segLen(i) < 64 /\ 63 \in maskOf(i, 0).is9
  /\ \E i \in 1..segCount : segLen(i) = 64

\* C3: at every position j below the segment's length, holding variant m:
\* a reference individual n has is0 bit j = haplotype-0 boolean of (m, n),
\* is2 bit j = haplotype-1 boolean and is9 bit j = 0; a target individual
\* has is0 bit j iff its code is 0, is2 iff 2, is9 iff 9 (code 1: no bit).
C3_DataBits ==
  segmented =>
    \A i \in packedSegs : \A j \in 0..(segLen(i) - 1) :
      LET m == seg64snpInds[i][j + 1] IN
        /\ \A n \in 0..(Nref - 1) :
             /\ (j \in maskOf(i, n).is0) = hapsRef[m * 2 * Nref + 2 * n + 1]
             /\ (j \in maskOf(i, n).is2) = hapsRef[m * 2 * Nref + 2 * n + 2]
             /\ j \notin maskOf(i, n).is9
        /\ \A n \in 0..(Ntarget - 1) :
             LET geno == genosTarget[m * Ntarget + n + 1] IN
               /\ (j \in maskOf(i, Nref + n).is0) = (geno = 0)
               /\ (j \in maskOf(i, Nref + n).is2) = (geno = 2)
               /\ (j \in maskOf(i, Nref + n).is9) = (geno = 9)

C3_Witness ==
  /\ pc = "done" /\ Mseg64 >= 2 /\ Nref = 2
  /\ \E i \in 1..segCount : \E j \in 0..(segLen(i) - 1) :
       /\ genosTarget[seg64snpInds[i][j + 1] * Ntarget + 1] = 1
       /\ j \notin maskOf(i, Nref).is0 \cup maskOf(i, Nref).is2 \cup maskOf(i, Nref).is9
       /\ j \in maskOf(i, 1).is0

----------------------------------------------------------------------------
(* Claims about the encoders, checked under SpecEnc *)

complement(haps) == [i \in 1..Len(haps) |-> ~haps[i]]

\* C7: with the same calls and the same RNG state on entry, the bits appended
\* with refAltSwap = true are the complement of those appended with
\* refAltSwap = false, and the RNG state and the two counts are the same.
C7_SwapComplements ==
  (pc = "encoded" /\ gtIn.side = "ref") =>
    LET other == process_ref_genotypes(gtIn.nsmpl, gtIn.gt, ~gtIn.refAltSwap,
                                       <<>>, gtIn.w0) IN
      /\ ~other.fatal
      /\ hapsRef = complement(other.hapsRef)
      /\ w = other.w
      /\ numMissing = other.numMissing
      /\ numUnphased = other.numUnphased

C7_Witness ==
  /\ pc = "encoded" /\ gtIn.side = "ref" /\ gtIn.refAltSwap /\ gtIn.nsmpl = 2
  /\ Len(hist.drawn) = 2 /\ hist.drawn[2] /\ numUnphased = 2

----------------------------------------------------------------------------
(* Claims about the record loop and the constructor, checked under Spec *)

counterOf(kind) ==
  CASE kind = "targetOnly" -> MtargetOnly
    [] kind = "refOnly" -> MrefOnly
    [] kind = "multiAllelic" -> MmultiAllelic
    [] kind = "monomorphic" -> Mmonomorphic
    [] kind = "refAltError" -> MrefAltError
RejectKinds == {"targetOnly", "refOnly", "multiAllelic", "monomorphic", "refAltError"}
reads == pc = "loop" /\ nread' = nread + 1

\* C5: a record rejected as target-only, ref-only, multi-allelic, monomorphic
\* or reconciliation error raises exactly its own rejection counter by one,
\* leaves M, the VariantKey list, the haplotype bits, the genotype codes, the
\* RNG state, the latched chromosome and the output unchanged, and the loop
\* goes on to the next record.
C5_RejectFrame ==
  [][(reads /\ hist'.last \in RejectKinds) =>
       /\ \A k \in RejectKinds :
            counterOf(k)' = counterOf(k) + (IF k = hist'.last THEN 1 ELSE 0)
       /\ UNCHANGED <<M, chrBps, hapsRef, genosTarget, w, prev_rid, chrom, out>>
       /\ pc' = "loop"]_vars

C5_Witness ==
  /\ M >= 1 /\ MrefAltError = 1 /\ Mmonomorphic = 1 /\ hist.last = "monomorphic"

\* C6: once a record has been accepted, the first joined record on another
\* chromosome (here, in the narrowest reading: the first one that also passes
\* the filters) stops the loop, and neither it nor a later record is
\* accepted, written or added to any counter, so all accepted variants lie
\* on one chromosome.
C6_StopsAtChromosomeChange ==
  /\ [][(reads /\ prev_rid >= 0 /\ curRid' # prev_rid /\ hist'.last = "passed") =>
          /\ pc' = "postloop"
          /\ UNCHANGED <<M, chrBps, out, rejectCounters, numRefAltSwaps,
                         MwithMissingRef, MwithUnphasedRef, GmissingRef,
                         GunphasedRef, GmissingTarget>>]_vars
  /\ [][pc # "loop" => UNCHANGED <<nread, M, chrBps, out, rejectCounters,
                                   numRefAltSwaps>>]_vars
  /\ [](\A i \in 1..Len(hist.accRids) : hist.accRids[i] = prev_rid)

\* What the loop does keep of C6: no record on another chromosome is accepted
\* or written, the first such record that passes the filters ends the loop
\* without touching a rejection or per-site counter, nothing is read after
\* the loop, and all accepted variants lie on one chromosome.
StopsAtPassingChromosomeChange ==
  /\ [][(reads /\ prev_rid >= 0 /\ curRid' # prev_rid) =>
          /\ UNCHANGED <<M, chrBps, hapsRef, genosTarget, out>>
          /\ hist'.last = "passed" =>
               /\ pc' = "postloop"
               /\ UNCHANGED <<rejectCounters, MwithMissingRef, MwithUnphasedRef,
                              GmissingRef, GunphasedRef, GmissingTarget>>]_vars
  /\ [][pc # "loop" => UNCHANGED <<nread, M, chrBps, hapsRef, genosTarget, out,
                                   rejectCounters, numRefAltSwaps>>]_vars
  /\ [](\A i \in 1..Len(hist.accRids) : hist.accRids[i] = prev_rid)

\* the loop has stopped at a REF/ALT-reversed record on another chromosome
C6_Witness ==
  /\ pc = "postloop" /\ M >= 1 /\ curRid # prev_rid /\ hist.last = "passed"
  /\ allowRefAltSwap /\ numRefAltSwaps > hist.accSwapped

\* C8, as claimed: a record with a sample that is not diploid, on either
\* side, ends the run with a fatal error.
C8_NonDiploidIsFatal == hist.sawNonDiploid => pc # "done"

\* C8, amended: an accepted record (one that passes the filters and the
\* chromosome check) with a sample that is not diploid ends the run with a
\* fatal error.
C8_AcceptedNonDiploidIsFatal == hist.acceptedNonDiploid => pc = "fatal"

C8_Witness == hist.acceptedNonDiploid /\ pc = "fatal" /\ M >= 2

physSpan == chrBps[Len(chrBps)][2] - chrBps[1][2]
geneticSpan == cMs[Len(cMs)] - cMs[1]

\* C9: buildGenoBits is reached only with at least 2 accepted variants and
\* non-zero physical and genetic spans; otherwise the run ends in a fatal
\* error and nothing is packed.
C9_PackedOnlyWhenValid ==
  /\ [](pc \in {"segment", "pack", "done"} =>
          M >= 2 /\ physSpan # 0 /\ geneticSpan # 0)
  /\ [](pc = "fatal" => genoBits = <<>> /\ Mseg64 = 0 /\ seg64snpInds = <<>>)
  /\ [][(pc = "postloop" /\ M < 2) => pc' = "fatal"]_vars
  /\ [][(pc = "range" /\ (physSpan = 0 \/ geneticSpan = 0)) => pc' = "fatal"]_vars

C9_Witness == pc = "done" /\ M = 3 /\ genoBits # <<>> /\ MrefOnly = 0

RECURSIVE RngAfter(_)
RngAfter(k) ==
  IF k = 0 THEN 521288629
  ELSE 18000 * (RngAfter(k - 1) % 65536) + (RngAfter(k - 1) \div 65536)

C12_OutputIsAccepted ==
  /\ [](pc # "fatal" =>
          /\ Len(out) = M /\ Len(chrBps) = M /\ Len(hist.accOrdinals) = M
          /\ \A i \in 1..M :
               /\ out[i].ordinal = hist.accOrdinals[i]
               /\ out[i].pos + 1 = chrBps[i][2]
          /\ \A i \in 1..(M - 1) : out[i].ordinal < out[i + 1].ordinal)
  /\ [](pc = "fatal" =>
          /\ Len(out) \in {M - 1, M}
          /\ \A i \in 1..Len(out) : out[i].ordinal = hist.accOrdinals[i])
  /\ [][(reads /\ (hist'.last \in RejectKinds \/ pc' = "postloop")) =>
          out' = out]_vars
  /\ [][pc # "loop" => out' = out]_vars

\* two records written around a rejected one, and the run completed
C12_Witness ==
  /\ pc = "done" /\ Len(out) = 2 /\ out[2].ordinal = 3
  /\ hist.last = "passed" /\ MrefOnly = 1

----------------------------------------------------------------------------
(* Claims about one call of an encoder, checked under SpecEnc *)

encodedRef == pc = "encoded" /\ gtIn.side = "ref"
callOf(i) == <<gtIn.gt[2 * i - 1], gtIn.gt[2 * i]>>
absent(v) == v \in {0, 1}
alleleIndex(v) == (v \div 2) - 1
markedPhased(v) == v % 2 = 1
missingCall(c) == absent(c[1]) \/ absent(c[2])
phasedCall(c) == ~missingCall(c) /\ markedPhased(c[2])

\* C13: each reference sample appends two bits, haplotype 0 then haplotype 1.
\* A phased call with both alleles present gives (allele0 >= 1, allele1 >= 1),
\* a call with a missing allele gives (0, 0) and adds one to the missing
\* count; both pairs are inverted when refAltSwap is set. Such calls leave
\* the RNG state and (for phased calls) both counts unchanged.
C13_PhasedAndMissingBits ==
  encodedRef =>
    /\ Len(hapsRef) = 2 * gtIn.nsmpl
    /\ \A i \in 1..gtIn.nsmpl :
         LET c == callOf(i) IN
           /\ phasedCall(c) =>
                /\ hapsRef[2 * i - 1] = ((alleleIndex(c[1]) >= 1) # gtIn.refAltSwap)
                /\ hapsRef[2 * i] = ((alleleIndex(c[2]) >= 1) # gtIn.refAltSwap)
           /\ missingCall(c) =>
                /\ hapsRef[2 * i - 1] = gtIn.refAltSwap
                /\ hapsRef[2 * i] = gtIn.refAltSwap
    /\ numMissing = Cardinality({i \in 1..gtIn.nsmpl : missingCall(callOf(i))})
    /\ (\A i \in 1..gtIn.nsmpl : phasedCall(callOf(i)) \/ missingCall(callOf(i))) =>
         w = gtIn.w0 /\ numUnphased = 0 /\ hist.drawn = <<>>

\* a phased 0|1 call and a call with a missing allele, encoded with refAltSwap
C13_Witness ==
  /\ encodedRef /\ gtIn.nsmpl = 2 /\ gtIn.refAltSwap
  /\ gtIn.gt = <<2, 5, 0, 4>>
  /\ hapsRef = <<TRUE, FALSE, TRUE, TRUE>>
  /\ gtIn.w0 # 521288629

RECURSIVE StepN(_, _)
StepN(x, k) ==
  IF k = 0 THEN x
  ELSE 18000 * (StepN(x, k - 1) % 65536) + (StepN(x, k - 1) \div 65536)

unphasedCall(c) == ~missingCall(c) /\ ~markedPhased(c[2])
isAlt(v) == alleleIndex(v) >= 1
\* the samples whose call is unphased with two different alleles
hetSamples == {i \in 1..gtIn.nsmpl :
                 unphasedCall(callOf(i))
                 /\ alleleIndex(callOf(i)[1]) # alleleIndex(callOf(i)[2])}
\* the samples whose call is unphased with one REF and one ALT allele
refAltSamples == {i \in 1..gtIn.nsmpl :
                    unphasedCall(callOf(i))
                    /\ isAlt(callOf(i)[1]) # isAlt(callOf(i)[2])}
rankIn(S, i) == Cardinality({j \in S : j <= i})

\* C14, as claimed: w is stepped exactly once for each non-missing unphased
\* call whose two alleles differ and never otherwise, and the booleans of
\* that call are swapped exactly when the new value is odd.
C14_StepsPerHeterozygousCall ==
  encodedRef =>
    /\ Len(hist.drawn) = Cardinality(hetSamples)
    /\ w = StepN(gtIn.w0, Cardinality(hetSamples))

\* C14, amended: w is replaced by 18000*(w & 0xFFFF) + (w >> 16) exactly once
\* for each non-missing unphased call with one REF and one ALT allele (the
\* two haplotype booleans differ) and never otherwise; that call's booleans
\* are swapped exactly when the new value is odd; the value stays below 2^32;
\* from 521288629 the first step gives the even 275137954, so a first
\* unphased 1/0 call is encoded unswapped as (true, false).
C14_StepsPerRefAltCall ==
  encodedRef =>
    /\ Len(hist.drawn) = Cardinality(refAltSamples)
    /\ w = StepN(gtIn.w0, Cardinality(refAltSamples))
    /\ w <= 2147483647
    /\ \A i \in refAltSamples :
         LET swapped == StepN(gtIn.w0, rankIn(refAltSamples, i)) % 2 = 1
             first == IF swapped THEN callOf(i)[2] ELSE callOf(i)[1]
             second == IF swapped THEN callOf(i)[1] ELSE callOf(i)[2]
         IN  /\ hist.drawn[rankIn(refAltSamples, i)] = swapped
             /\ hapsRef[2 * i - 1] = (isAlt(first) # gtIn.refAltSwap)
             /\ hapsRef[2 * i] = (isAlt(second) # gtIn.refAltSwap)
    /\ (gtIn.w0 = 521288629 /\ refAltSamples # {}) =>
         /\ StepN(gtIn.w0, 1) = 275137954
         /\ ~hist.drawn[1]
    /\ (gtIn.w0 = 521288629 /\ gtIn.gt = <<4, 2>> /\ ~gtIn.refAltSwap) =>
         hapsRef = <<TRUE, FALSE>>

\* two unphased 1/0 and 0/1 calls, the first kept and the second swapped
C14_Witness ==
  /\ encodedRef /\ ~gtIn.refAltSwap
  /\ gtIn.gt = <<4, 2, 2, 4>>
  /\ hist.drawn = <<FALSE, TRUE>>
  /\ hapsRef = <<TRUE, FALSE, TRUE, FALSE>>

ranTarget == pc \in {"encoded", "fatal"} /\ gtIn.side = "target"
isEnd(v) == v = -2147483647
\* a call the target encoder refuses
refusedCall(c) ==
  \/ isEnd(c[1]) \/ isEnd(c[2])
  \/ ~absent(c[1]) /\ alleleIndex(c[1]) > 1
  \/ ~absent(c[2]) /\ alleleIndex(c[2]) > 1

\* C15: each target sample appends one code in {0,1,2,9}: 9, with the missing
\* count raised by one, when either allele is missing, otherwise the sum of
\* the two allele indices; an allele index above 1 or a vector-end sentinel
\* in either slot is fatal instead.
C15_TargetCodes ==
  ranTarget =>
    LET n == gtIn.nsmpl
        refused == \/ Len(gtIn.gt) # 2 * n
                   \/ \E i \in 1..n : refusedCall(callOf(i))
    IN  /\ (pc = "fatal") = refused
        /\ pc = "encoded" =>
             /\ Len(genosTarget) = n
             /\ \A i \in 1..n :
                  /\ genosTarget[i] \in {0, 1, 2, 9}
                  /\ genosTarget[i] =
                       IF missingCall(callOf(i)) THEN 9
                       ELSE alleleIndex(callOf(i)[1]) + alleleIndex(callOf(i)[2])
             /\ numMissing = Cardinality({i \in 1..n : missingCall(callOf(i))})

\* a 0/1 call and a call with a missing allele
C15_Witness ==
  /\ pc = "encoded" /\ gtIn.side = "target"
  /\ gtIn.gt = <<2, 4, 0, 4>>
  /\ genosTarget = <<1, 9>> /\ numMissing = 1

\* C16, as claimed: the unphased count of a site is the number of reference
\* samples whose call is non-missing, not marked phased and has two different
\* alleles; homozygous unphased calls do not raise it.
C16_UnphasedCountsHeterozygous ==
  encodedRef => numUnphased = Cardinality(hetSamples)

\* C16, amended: the unphased count of a site is the number of reference
\* samples whose call is non-missing and not marked phased, whether its two
\* alleles differ or not; calls with a missing allele do not raise it.
C16_UnphasedCountsAllUnphased ==
  encodedRef =>
    numUnphased = Cardinality({i \in 1..gtIn.nsmpl : unphasedCall(callOf(i))})

\* a homozygous unphased call 0/0 and a call with a missing allele
C16_Witness ==
  /\ encodedRef /\ gtIn.gt = <<2, 2, 0, 2>>
  /\ numUnphased = 1 /\ numMissing = 1 /\ hist.drawn = <<>>

----------------------------------------------------------------------------
(* Further claims about the record loop, checked under Spec *)

\* C17: at the end of every iteration of the record loop the VariantKey list
\* has M entries, the haplotype bits 2 * M * Nref, the genotype codes
\* M * Ntarget, each code in {0,1,2,9}, where M is the number of accepted
\* variants.
C17_VectorLengths ==
  pc # "fatal" =>
    /\ M = Len(hist.accOrdinals)
    /\ Len(chrBps) = M
    /\ Len(hapsRef) = 2 * M * Nref
    /\ Len(genosTarget) = M * Ntarget
    /\ \A i \in 1..Len(genosTarget) : genosTarget[i] \in {0, 1, 2, 9}

\* the loop goes on after two accepted records and a rejected one
C17_Witness ==
  /\ pc = "loop" /\ M = 2 /\ nread = 3 /\ hist.last = "passed"
  /\ Len(hapsRef) = 4 * Nref /\ genosTarget # <<>>

afterLoop == pc \in {"postloop", "map", "range", "segment", "pack", "done"}

\* C18: after the record loop numRefAltSwaps is the number of accepted
\* variants whose reference bits were encoded with refAltSwap set, so it is
\* at most M, and it is 0, as is MrefAltError, when allowRefAltSwap is off.
C18_SwapCountIsAcceptedSwaps ==
  afterLoop =>
    /\ numRefAltSwaps = hist.accSwapped
    /\ numRefAltSwaps <= M
    /\ ~allowRefAltSwap => numRefAltSwaps = 0 /\ MrefAltError = 0

\* a completed run whose swap count exceeds its number of variants
C18_Witness ==
  /\ pc = "done" /\ M = 2 /\ hist.accSwapped = 2 /\ numRefAltSwaps = 3

\* the integer a contig name starts with, 0 when it starts with none
nameValue(name) ==
  CASE name = <<"2", "2">> -> 22
    [] name = <<"2", "3">> -> 23
    [] OTHER -> 0
contigValue(rid) == nameValue(Contigs[rid + 1])

\* C19: with no chromosome supplied, the chromosome number is inferred once,
\* from the contig name of the first record that passes the filters; a name
\* that gives no integer in [1,22] is fatal before any variant is accepted or
\* written, and otherwise every VariantKey carries the inferred number.
C19_ChromosomeInferredOnce ==
  /\ [][(reads /\ region = 0 /\ prev_rid < 0 /\ hist'.last = "passed") =>
          IF contigValue(curRid') \in 1..22
          THEN chrom' = contigValue(curRid') /\ M' = 1 /\ prev_rid' = curRid'
          ELSE pc' = "fatal" /\ M' = 0 /\ chrBps' = <<>> /\ out' = <<>>]_vars
  /\ [][(region # 0 \/ prev_rid >= 0 \/ ~reads \/ hist'.last # "passed") =>
          chrom' = chrom]_vars
  /\ [](region = 0 /\ M >= 1 =>
          /\ chrom = contigValue(hist.accRids[1])
          /\ chrom \in 1..22
          /\ \A i \in 1..Len(chrBps) : chrBps[i][1] = chrom)
  /\ [](region = 0 /\ prev_rid < 0 => chrom = 0 /\ M = 0 /\ out = <<>>)

\* the first record was rejected, the chromosome was read from the second
C19_Witness ==
  /\ region = 0 /\ pc = "done" /\ M = 2 /\ chrom = 22
  /\ hist.accOrdinals = <<2, 3>> /\ chrBps[2][1] = 22

====
